---- MODULE Spec2Model ----
(***************************************************************************)
(* Pricing guideline engine (src/index.js, final revision, lines 255-545). *)
(*                                                                         *)
(* Representation                                                          *)
(*   - a JavaScript string is a sequence of one-character strings;         *)
(*   - a JavaScript value is a record [t, n, s]: t = "undef" (undefined or *)
(*     null), t = "num" with n the number counted in units of 1/Scale, or  *)
(*     t = "str" with s the string;                                        *)
(*   - an object keyed by strings (rulesByState, localRules, a parsed rule *)
(*     JSON) is a function whose DOMAIN is the set of its own keys.        *)
(***************************************************************************)
EXTENDS Integers, Sequences, FiniteSets, TLC

\* ------------------------------------------------------------------------
\* Bounds of the model
\* ------------------------------------------------------------------------

\* number of /reload requests that may be in flight at the same time
NumReloaders == 2

\* numbers are multiples of 1/Scale (0.08 is 8, 50000 is 5000000)
Scale == 100

\* ------------------------------------------------------------------------
\* Strings
\* ------------------------------------------------------------------------

Digits == <<"0", "1", "2", "3", "4", "5", "6", "7", "8", "9">>

Uppers == <<"A", "B", "C", "D", "E", "F", "G", "H", "I", "J", "K", "L", "M",
            "N", "O", "P", "Q", "R", "S", "T", "U", "V", "W", "X", "Y", "Z">>

Lowers == <<"a", "b", "c", "d", "e", "f", "g", "h", "i", "j", "k", "l", "m",
            "n", "o", "p", "q", "r", "s", "t", "u", "v", "w", "x", "y", "z">>

Range(f) == {f[i] : i \in DOMAIN f}

IndexOf(seq, c) == CHOOSE i \in DOMAIN seq : seq[i] = c

IsSpace(c) == c = " "

IsDigit(c) == c \in Range(Digits)

\* UTF-16 code unit of a character of the model's alphabet
CharCode(c) ==
    IF c \in Range(Digits) THEN 47 + IndexOf(Digits, c)
    ELSE IF c \in Range(Uppers) THEN 64 + IndexOf(Uppers, c)
    ELSE IF c \in Range(Lowers) THEN 96 + IndexOf(Lowers, c)
    ELSE IF c = " " THEN 32
    ELSE IF c = "$" THEN 36
    ELSE IF c = "%" THEN 37
    ELSE IF c = "," THEN 44
    ELSE IF c = "." THEN 46
    ELSE 63

UpperChar(c) == IF c \in Range(Lowers) THEN Uppers[IndexOf(Lowers, c)] ELSE c

LowerChar(c) == IF c \in Range(Uppers) THEN Lowers[IndexOf(Uppers, c)] ELSE c

\* String.prototype.toUpperCase
toUpperCase(s) == [i \in 1..Len(s) |-> UpperChar(s[i])]

\* String.prototype.toLowerCase
toLowerCase(s) == [i \in 1..Len(s) |-> LowerChar(s[i])]

RECURSIVE TrimStart(_)
TrimStart(s) ==
    IF s # <<>> /\ IsSpace(Head(s)) THEN TrimStart(Tail(s)) ELSE s

RECURSIVE TrimEnd(_)
TrimEnd(s) ==
    IF s # <<>> /\ IsSpace(s[Len(s)]) THEN TrimEnd(SubSeq(s, 1, Len(s) - 1))
    ELSE s

\* String.prototype.trim
trim(s) == TrimEnd(TrimStart(s))

\* s < t in the order of strings (code unit by code unit, a proper prefix first)
RECURSIVE StrLess(_, _)
StrLess(s, t) ==
    IF t = <<>> THEN FALSE
    ELSE IF s = <<>> THEN TRUE
    ELSE IF CharCode(Head(s)) # CharCode(Head(t))
         THEN CharCode(Head(s)) < CharCode(Head(t))
    ELSE StrLess(Tail(s), Tail(t))

\* ------------------------------------------------------------------------
\* Values
\* ------------------------------------------------------------------------

Undef == [t |-> "undef", n |-> 0, s |-> <<>>]

Num(k) == [t |-> "num", n |-> k, s |-> <<>>]

Str(x) == [t |-> "str", n |-> 0, s |-> x]

\* the value NaN, which no value of this model compares to
NaN == [t |-> "nan", n |-> 0, s |-> <<>>]

RECURSIVE DigitsValue(_, _)
DigitsValue(s, acc) ==
    IF s = <<>> THEN acc
    ELSE DigitsValue(Tail(s), 10 * acc + (IndexOf(Digits, Head(s)) - 1))

\* ToNumber: a number is itself; a string is trimmed, the empty string is 0,
\* a string of decimal digits is its value, any other string is NaN
ToNumber(v) ==
    IF v.t = "num" THEN v
    ELSE IF v.t = "str" THEN
        LET x == trim(v.s) IN
        IF \A i \in 1..Len(x) : IsDigit(x[i]) THEN Num(Scale * DigitsValue(x, 0))
        ELSE NaN
    ELSE NaN

\* the operator ===
StrictEquals(l, r) == l.t = r.t /\ l.t # "nan" /\ l = r

\* the operator <: two strings are compared as strings, any other pair as
\* numbers, and a comparison with NaN is false
LessThan(l, r) ==
    IF l.t = "str" /\ r.t = "str" THEN StrLess(l.s, r.s)
    ELSE LET a == ToNumber(l)
             b == ToNumber(r)
         IN  a.t = "num" /\ b.t = "num" /\ a.n < b.n

\* the operator <=
LessOrEqual(l, r) ==
    IF l.t = "str" /\ r.t = "str" THEN ~StrLess(r.s, l.s)
    ELSE LET a == ToNumber(l)
             b == ToNumber(r)
         IN  a.t = "num" /\ b.t = "num" /\ a.n <= b.n

\* typeof v === "string" ? v.trim().toLowerCase() : v
Normalize(v) == IF v.t = "str" THEN Str(toLowerCase(trim(v.s))) ELSE v

\* deal[cond.field] for the object literal the handler passes
DealValue(deal, field) == IF field \in DOMAIN deal THEN deal[field] ELSE Undef

\* a variant of evaluateCondition without the check for a missing value
\* (the first revisions of the file, src/unnamed/part_001 lines 14-25)
evaluateConditionUnchecked(cond, deal) ==
    LET left == Normalize(DealValue(deal, cond.field))
        right == Normalize(cond.value)
    IN  CASE cond.operator = "=" -> StrictEquals(left, right)
          [] cond.operator = "!=" -> ~StrictEquals(left, right)
          [] cond.operator = "<" -> LessThan(left, right)
          [] cond.operator = "<=" -> LessOrEqual(left, right)
          [] cond.operator = ">" -> LessThan(right, left)
          [] cond.operator = ">=" -> LessOrEqual(right, left)
          [] OTHER -> FALSE

evaluateCondition(cond, deal) ==
    LET val == DealValue(deal, cond.field) IN
    IF val.t = "undef" THEN FALSE
    ELSE LET left == Normalize(val)
             right == Normalize(cond.value)
         IN  CASE cond.operator = "=" -> StrictEquals(left, right)
               [] cond.operator = "!=" -> ~StrictEquals(left, right)
               [] cond.operator = "<" -> LessThan(left, right)
               [] cond.operator = "<=" -> LessOrEqual(left, right)
               [] cond.operator = ">" -> LessThan(right, left)
               [] cond.operator = ">=" -> LessOrEqual(right, left)
               [] OTHER -> FALSE

\* ------------------------------------------------------------------------
\* Rule matching (the loop body of the /evaluate handler)
\* ------------------------------------------------------------------------

\* Array.prototype.every over the clauses, first false clause decides
RECURSIVE Every(_, _)
Every(clauses, deal) ==
    IF clauses = <<>> THEN TRUE
    ELSE IF ~evaluateCondition(Head(clauses), deal) THEN FALSE
    ELSE Every(Tail(clauses), deal)

\* a variant of SomeFails that wants every clause to fail
RECURSIVE AllFail(_, _)
AllFail(clauses, deal) ==
    IF clauses = <<>> THEN FALSE
    ELSE IF evaluateCondition(Head(clauses), deal) THEN FALSE
    ELSE IF Tail(clauses) = <<>> THEN TRUE
    ELSE AllFail(Tail(clauses), deal)

\* Array.prototype.some over the negated clauses, first failing clause decides
RECURSIVE SomeFails(_, _)
SomeFails(clauses, deal) ==
    IF clauses = <<>> THEN FALSE
    ELSE IF ~evaluateCondition(Head(clauses), deal) THEN TRUE
    ELSE SomeFails(Tail(clauses), deal)

\* const { conditions = [], requirements = [] } = rule.json || {}
Conditions(rule) ==
    IF "conditions" \in rule.json.keys THEN rule.json.conditions ELSE <<>>

Requirements(rule) ==
    IF "requirements" \in rule.json.keys THEN rule.json.requirements ELSE <<>>

\* the object literal { amount, businessForm, residualType, yield: dealYield }
\* built from the destructured request body
DealOf(body) ==
    [amount |-> body.amount, businessForm |-> body.businessForm,
     residualType |-> body.residualType, yield |-> body.yield]

\* what the loop decides for one rule: conditionsMet, and violated when it
\* is computed (it is not computed, and the rule is skipped, otherwise)
MatchRule(rule, deal) ==
    LET conditionsMet == Every(Conditions(rule), deal) IN
    [applies |-> conditionsMet,
     violated |-> IF conditionsMet THEN SomeFails(Requirements(rule), deal)
                  ELSE FALSE]

\* ------------------------------------------------------------------------
\* Explanations (generateExplanation)
\* ------------------------------------------------------------------------

\* the texts of the template literals
tAmount ==
    <<"A", "m", "o", "u", "n", "t", " ">>

tBusinessForm ==
    <<"B", "u", "s", "i", "n", "e", "s", "s", " ", "f", "o", "r", "m", " ">>

tResidualType ==
    <<"R", "e", "s", "i", "d", "u", "a", "l", " ", "t", "y", "p", "e", " ">>

tYield ==
    <<"Y", "i", "e", "l", "d", " ">>

tIs ==
    <<"i", "s">>

tIsNot ==
    <<"i", "s", " ", "n", "o", "t">>

tMustBe ==
    <<"m", "u", "s", "t", " ", "b", "e">>

tCannotBe ==
    <<"c", "a", "n", "n", "o", "t", " ", "b", "e">>

tMaximumYield ==
    <<"M", "a", "x", "i", "m", "u", "m", " ", "y", "i", "e", "l", "d", " ",
      "a", "l", "l", "o", "w", "e", "d", " ", "i", "s", " ">>

tMinimumAmount ==
    <<"M", "i", "n", "i", "m", "u", "m", " ", "a", "m", "o", "u", "n", "t",
      " ", "r", "e", "q", "u", "i", "r", "e", "m", "e", "n", "t", " ", "i",
      "s", " ", "$">>

tAnd ==
    <<" ", "A", "N", "D", " ">>

tNaN ==
    <<"N", "a", "N">>

tFallback ==
    <<"D", "e", "a", "l", " ", "d", "i", "d", " ", "n", "o", "t", " ", "m",
      "e", "e", "t", " ", "t", "h", "e", " ", "s", "t", "a", "t", "e", "d",
      " ", "g", "u", "i", "d", "e", "l", "i", "n", "e", ".">>

tInTheStateOf ==
    <<"I", "n", " ", "t", "h", "e", " ", "s", "t", "a", "t", "e", " ", "o",
      "f", " ">>

tPointZeroZero ==
    <<".", "0", "0">>

\* the characters of a field name
FieldText(field) ==
    CASE field = "amount" -> <<"a", "m", "o", "u", "n", "t">>
      [] field = "businessForm" ->
            <<"b", "u", "s", "i", "n", "e", "s", "s", "F", "o", "r", "m">>
      [] field = "residualType" ->
            <<"r", "e", "s", "i", "d", "u", "a", "l", "T", "y", "p", "e">>
      [] field = "yield" -> <<"y", "i", "e", "l", "d">>
      [] field = "points" -> <<"p", "o", "i", "n", "t", "s">>

\* the characters of an operator
OperatorText(op) ==
    CASE op = "=" -> <<"=">>
      [] op = "!=" -> <<"!", "=">>
      [] op = "<" -> <<"<">>
      [] op = "<=" -> <<"<", "=">>
      [] op = ">" -> <<">">>
      [] op = ">=" -> <<">", "=">>
      [] op = "~" -> <<"~">>

\* the decimal digits of a natural number
RECURSIVE Decimal(_)
Decimal(k) ==
    IF k < 10 THEN <<Digits[k + 1]>>
    ELSE Decimal(k \div 10) \o <<Digits[(k % 10) + 1]>>

\* the digits of a natural number in groups of three
RECURSIVE Grouped(_)
Grouped(k) ==
    IF k < 1000 THEN Decimal(k)
    ELSE Grouped(k \div 1000)
         \o <<",", Digits[((k \div 100) % 10) + 1], Digits[((k \div 10) % 10) + 1],
              Digits[(k % 10) + 1]>>

\* the fraction digits of a number of n units of 1/Scale, without trailing zeros
Fraction(n) ==
    LET r == n % Scale IN
    IF r = 0 THEN <<>>
    ELSE IF r % 10 = 0 THEN <<".", Digits[(r \div 10) + 1]>>
    ELSE <<".", Digits[(r \div 10) + 1], Digits[(r % 10) + 1]>>

\* `${value}`: a string is itself, a number is written in decimal
ValueText(v) ==
    IF v.t = "str" THEN v.s ELSE Decimal(v.n \div Scale) \o Fraction(v.n)

\* value.toLocaleString(): a string is itself, a number gets thousands
\* separators (the en-US conventions)
toLocaleString(v) ==
    IF v.t = "str" THEN v.s ELSE Grouped(v.n \div Scale) \o Fraction(v.n)

\* (value * 100).toFixed(2): the value times 100 is v.n when Scale is 100
PercentText(v) ==
    LET x == ToNumber(v) IN
    IF x.t = "nan" THEN tNaN ELSE Decimal(x.n) \o tPointZeroZero

describeCond(c) ==
    CASE c.field = "amount" ->
            tAmount \o OperatorText(c.operator) \o <<" ">> \o toLocaleString(c.value)
      [] c.field = "businessForm" ->
            tBusinessForm \o (IF c.operator = "=" THEN tIs ELSE tIsNot)
                \o <<" ">> \o ValueText(c.value)
      [] c.field = "residualType" ->
            tResidualType \o (IF c.operator = "=" THEN tMustBe ELSE tCannotBe)
                \o <<" ">> \o ValueText(c.value)
      [] c.field = "yield" ->
            tYield \o OperatorText(c.operator) \o <<" ">> \o PercentText(c.value)
                \o <<"%">>
      [] OTHER ->
            FieldText(c.field) \o <<" ">> \o OperatorText(c.operator) \o <<" ">>
                \o ValueText(c.value)

describeReq(r) ==
    CASE r.field = "residualType" ->
            tResidualType \o (IF r.operator = "=" THEN tMustBe ELSE tCannotBe)
                \o <<" ">> \o ValueText(r.value)
      [] r.field = "businessForm" ->
            tBusinessForm \o (IF r.operator = "=" THEN tMustBe ELSE tCannotBe)
                \o <<" ">> \o ValueText(r.value)
      [] r.field = "yield" ->
            tMaximumYield \o PercentText(r.value) \o <<"%">>
      [] r.field = "amount" ->
            tMinimumAmount \o toLocaleString(r.value)
      [] OTHER ->
            FieldText(r.field) \o <<" ">> \o OperatorText(r.operator) \o <<" ">>
                \o ValueText(r.value)

\* Array.prototype.join
RECURSIVE Join(_, _)
Join(texts, sep) ==
    IF texts = <<>> THEN <<>>
    ELSE IF Len(texts) = 1 THEN texts[1]
    ELSE texts[1] \o sep \o Join(Tail(texts), sep)

\* a variant of generateExplanation that tests reqText first, so that the
\* condition part is lost when both parts exist
generateExplanationReqFirst(rule) ==
    LET conditions == Conditions(rule)
        requirements == Requirements(rule)
        condText ==
            IF Len(conditions) # 0
            THEN Join([i \in DOMAIN conditions |-> describeCond(conditions[i])], tAnd)
            ELSE <<>>
        reqText ==
            IF Len(requirements) # 0
            THEN Join([i \in DOMAIN requirements |-> describeReq(requirements[i])], tAnd)
            ELSE <<>>
    IN  IF reqText # <<>> THEN reqText \o <<".">>
        ELSE IF condText # <<>> THEN condText \o <<".">>
        ELSE tFallback

generateExplanation(rule) ==
    LET conditions == Conditions(rule)
        requirements == Requirements(rule)
        condText ==
            IF Len(conditions) # 0
            THEN Join([i \in DOMAIN conditions |-> describeCond(conditions[i])], tAnd)
            ELSE <<>>
        reqText ==
            IF Len(requirements) # 0
            THEN Join([i \in DOMAIN requirements |-> describeReq(requirements[i])], tAnd)
            ELSE <<>>
    IN  IF condText # <<>> /\ reqText # <<>>
        THEN condText \o <<".", " ">> \o reqText \o <<".">>
        ELSE IF reqText # <<>> THEN reqText \o <<".">>
        ELSE IF condText # <<>> THEN condText \o <<".">>
        ELSE tFallback

\* the entry pushed for a violated rule
ViolationEntry(rule, upperState) ==
    [ruleId |-> rule.id, rule |-> rule.text,
     notes |-> tInTheStateOf \o upperState \o <<",", " ">> \o generateExplanation(rule)]

\* a variant of CollectViolations that puts each new entry first
RECURSIVE CollectViolationsUnshift(_, _, _, _)
CollectViolationsUnshift(rules, i, deal, upperState) ==
    IF i > Len(rules) THEN <<>>
    ELSE LET m == MatchRule(rules[i], deal)
             rest == CollectViolationsUnshift(rules, i + 1, deal, upperState)
         IN  IF m.applies /\ m.violated
             THEN rest \o <<ViolationEntry(rules[i], upperState)>>
             ELSE rest

\* for (const rule of rules) { ... }: the violations collected from rules[i..]
RECURSIVE CollectViolations(_, _, _, _)
CollectViolations(rules, i, deal, upperState) ==
    IF i > Len(rules) THEN <<>>
    ELSE LET m == MatchRule(rules[i], deal)
             rest == CollectViolations(rules, i + 1, deal, upperState)
         IN  IF m.applies /\ m.violated
             THEN <<ViolationEntry(rules[i], upperState)>> \o rest
             ELSE rest

\* what the loop logs for each rule it checks, in order
MatchLog(rules, deal) == [i \in 1..Len(rules) |-> MatchRule(rules[i], deal)]

\* a variant of Falsy that lets the empty string through
IsUndefined(v) == v.t = "undef"

\* !state
Falsy(v) == v.t = "undef" \/ (v.t = "str" /\ v.s = <<>>) \/ (v.t = "num" /\ v.n = 0)

\* a variant of UpperState that keeps the state as it was sent
RawState(state) == state.s

\* upperState = state.toUpperCase()
UpperState(state) == toUpperCase(state.s)

\* rulesByState[upperState] || []
RulesFor(store, upperState) ==
    IF upperState \in DOMAIN store THEN store[upperState] ELSE <<>>

NoResponse ==
    [status |-> 0, keys |-> {}, state |-> <<>>, violationCount |-> 0,
     violations |-> <<>>]

\* the response of POST /evaluate to a request body, with the Store it reads
EvaluateResponse(store, body) ==
    IF Falsy(body.state)
    THEN [status |-> 400, keys |-> {"error"}, state |-> <<>>,
          violationCount |-> 0, violations |-> <<>>]
    ELSE LET upperState == UpperState(body.state)
             rules == RulesFor(store, upperState)
             violations == CollectViolations(rules, 1, DealOf(body), upperState)
         IN  [status |-> 200, keys |-> {"state", "violationCount", "violations"},
              state |-> upperState, violationCount |-> Len(violations),
              violations |-> violations]

\* the per-rule log lines of POST /evaluate (none before the state check passes)
EvaluateLog(store, body) ==
    IF Falsy(body.state) THEN <<>>
    ELSE MatchLog(RulesFor(store, UpperState(body.state)), DealOf(body))

\* ------------------------------------------------------------------------
\* Loading (loadRules)
\* ------------------------------------------------------------------------

\* the object {}
EmptyObject == [k \in {} |-> <<>>]

\* obj[key] = value
Put(obj, key, value) ==
    [k \in DOMAIN obj \cup {key} |-> IF k = key THEN value ELSE obj[k]]

\* the rule JSON {} (no conditions key, no requirements key)
EmptyJson == [keys |-> {}, conditions |-> <<>>, requirements |-> <<>>]

\* The Rule_JSON__c cell of a row is kept by what lines 352-357 make of its
\* text: "empty" (absent or blank, read as "{}"), "json" (the text parses,
\* to the object cell.json) or "garbage" (JSON.parse throws).
\* try { jsonData = JSON.parse(raw) } catch { jsonData = {} }
ParseCell(cell) ==
    IF cell.kind = "json" THEN cell.json ELSE EmptyJson

\* row.State__c?.trim()?.toUpperCase(), the empty string for undefined
RowState(row) ==
    IF row.State__c.t = "undef" THEN <<>>
    ELSE toUpperCase(trim(row.State__c.s))

\* the rule object built from a row
RuleOf(row) ==
    [id |-> row.Guideline__c, text |-> row.Guideline__c,
     json |-> ParseCell(row.Rule_JSON__c)]

\* the "data" handler: localRules after the row
OnData(local, row) ==
    LET state == RowState(row) IN
    IF state = <<>> THEN local
    ELSE IF state \in DOMAIN local
         THEN Put(local, state, Append(local[state], RuleOf(row)))
         ELSE Put(local, state, <<RuleOf(row)>>)

\* localRules once every row of the file has been delivered
RECURSIVE LoadRows(_, _)
LoadRows(local, rows) ==
    IF rows = <<>> THEN local
    ELSE LoadRows(OnData(local, Head(rows)), Tail(rows))

\* Object.keys(rulesByState).length
StatesLoaded(store) == Cardinality(DOMAIN store)

\* ------------------------------------------------------------------------
\* Inputs: strings, clauses, sources and request bodies
\* ------------------------------------------------------------------------

sCA == <<"C", "A">>

sCaLower == <<"c", "a">>

sCaMixed == <<"C", "a">>

sNY == <<"N", "Y">>

sNyPadded == <<" ", "n", "y", " ">>

sTX == <<"T", "X">>

sLLC == <<"L", "L", "C">>

sLlcPadded == <<" ", "l", "l", "c", " ">>

sCorp == <<"C", "o", "r", "p">>

sFMV == <<"F", "M", "V">>

s50000 == <<"5", "0", "0", "0", "0">>

s6000 == <<"6", "0", "0", "0">>

\* the number k (an amount in dollars, or any whole number)
Whole(k) == Num(k * Scale)

\* the fraction k/100 (a yield or points value such as 0.08)
Percent(k) == Num(k)

Clause(f, op, v) == [field |-> f, operator |-> op, value |-> v]

Json(conds, reqs) ==
    [keys |-> {"conditions", "requirements"}, conditions |-> conds,
     requirements |-> reqs]

JsonRequirementsOnly(reqs) ==
    [keys |-> {"requirements"}, conditions |-> <<>>, requirements |-> reqs]

JsonCell(j) == [kind |-> "json", json |-> j]

GarbageCell == [kind |-> "garbage", json |-> EmptyJson]

EmptyCell == [kind |-> "empty", json |-> EmptyJson]

Row(state, id, cell) ==
    [State__c |-> state, Guideline__c |-> id, Rule_JSON__c |-> cell]

\* scenario 1 of the specification, a rule without a conditions key under
\* the same state written in lower case, and a row whose cell does not parse
SourceA ==
    <<Row(Str(sCA), "G1",
          JsonCell(Json(<<Clause("businessForm", "=", Str(sLLC))>>,
                        <<Clause("amount", ">=", Whole(50000))>>))),
      Row(Str(sCaLower), "G2",
          JsonCell(JsonRequirementsOnly(<<Clause("yield", "<=", Percent(8))>>))),
      Row(Str(sCA), "G3", GarbageCell)>>

\* a padded lower-case state, a state whose only row is malformed, and a
\* row without a state
SourceB ==
    <<Row(Str(sNyPadded), "G1",
          JsonCell(Json(<<>>, <<Clause("amount", "<=", Whole(10000))>>))),
      Row(Str(sTX), "G4", GarbageCell),
      Row(Undef, "G5",
          JsonCell(Json(<<>>, <<Clause("amount", ">", Whole(0))>>)))>>

Sources == {SourceA, SourceB}

Body(state, amount, businessForm, residualType, yield, points) ==
    [state |-> state, amount |-> amount, businessForm |-> businessForm,
     residualType |-> residualType, yield |-> yield, points |-> points]

NoRequest == Body(Undef, Undef, Undef, Undef, Undef, Undef)

\* the request bodies of the server specification
Requests ==
    {Body(st, am, Str(sLlcPadded), Undef, Percent(9), Undef) :
        st \in {Undef, Str(sCaLower), Str(sNY)},
        am \in {Whole(10000), Whole(50000)}}

\* ------------------------------------------------------------------------
\* State
\* ------------------------------------------------------------------------

\* loader 0 is the load at startup, the others are /reload requests
Loaders == 0..NumReloaders

VARIABLES
    rulesByState,   \* the module-level cache
    listening,      \* app.listen has been called
    pc,             \* per loader: "idle" or "streaming"
    src,            \* per loader: the rows of the file it opened
    idx,            \* per loader: the number of rows delivered so far
    localRules,     \* per loader: its localRules object
    lastLoad,       \* how the last finished load ended, and what /reload answered
    evalReq,        \* the body of the last /evaluate request
    evalResp,       \* its response
    evalStore,      \* the rulesByState object that request read
    evalLog,        \* what it logged for each rule it checked
    evalMidLoad     \* whether a load was part-way through its rows then

vars ==
    <<rulesByState, listening, pc, src, idx, localRules, lastLoad, evalReq,
      evalResp, evalStore, evalLog, evalMidLoad>>

loadVars == <<rulesByState, listening, pc, src, idx, localRules, lastLoad>>

evalVars == <<evalReq, evalResp, evalStore, evalLog, evalMidLoad>>

NoLoad == [outcome |-> "none", rows |-> <<>>, statesLoaded |-> -1]

\* let rulesByState = {}; the startup load has not begun
Init ==
    /\ rulesByState = EmptyObject
    /\ listening = FALSE
    /\ pc = [l \in Loaders |-> "idle"]
    /\ src = [l \in Loaders |-> <<>>]
    /\ idx = [l \in Loaders |-> 0]
    /\ localRules = [l \in Loaders |-> EmptyObject]
    /\ lastLoad = NoLoad
    /\ evalReq = NoRequest
    /\ evalResp = NoResponse
    /\ evalStore = EmptyObject
    /\ evalLog = <<>>
    /\ evalMidLoad = FALSE

\* a load may begin: the startup load once, a /reload when the server listens
CanStart(l) ==
    /\ pc[l] = "idle"
    /\ IF l = 0 THEN ~listening ELSE listening

\* The promise of loadRules resolves with rulesByState holding store: the
\* startup code goes on to listen, the /reload handler answers with the
\* number of keys of rulesByState (-1 stands for the startup load, which
\* answers nobody). rows are the rows an ended stream delivered.
Resolved(l, outcome, rows, store) ==
    /\ listening' = (listening \/ l = 0)
    /\ lastLoad' = [outcome |-> outcome, rows |-> rows,
                    statesLoaded |-> IF l = 0 THEN -1 ELSE StatesLoaded(store)]

\* the call of loadRules is over: its locals are gone
Finished(l) ==
    /\ pc' = [pc EXCEPT ![l] = "idle"]
    /\ src' = [src EXCEPT ![l] = <<>>]
    /\ idx' = [idx EXCEPT ![l] = 0]
    /\ localRules' = [localRules EXCEPT ![l] = EmptyObject]

\* loadRules when the file does not exist
LoadMissing(l) ==
    /\ CanStart(l)
    /\ rulesByState' = EmptyObject
    /\ Resolved(l, "missing", <<>>, EmptyObject)
    /\ UNCHANGED <<pc, src, idx, localRules>>
    /\ UNCHANGED evalVars

\* loadRules when the file exists: localRules = {} and the stream is opened
LoadOpen(l, rows) ==
    /\ CanStart(l)
    /\ pc' = [pc EXCEPT ![l] = "streaming"]
    /\ src' = [src EXCEPT ![l] = rows]
    /\ idx' = [idx EXCEPT ![l] = 0]
    /\ localRules' = [localRules EXCEPT ![l] = EmptyObject]
    /\ UNCHANGED <<rulesByState, listening, lastLoad>>
    /\ UNCHANGED evalVars

\* a variant of LoadData that pushes the rule into rulesByState as well
\* (what the first revision did, src/index.js lines 15-24)
LoadDataInPlace(l) ==
    /\ pc[l] = "streaming"
    /\ idx[l] < Len(src[l])
    /\ localRules' = [localRules EXCEPT ![l] = OnData(@, src[l][idx[l] + 1])]
    /\ rulesByState' = OnData(rulesByState, src[l][idx[l] + 1])
    /\ idx' = [idx EXCEPT ![l] = @ + 1]
    /\ UNCHANGED <<listening, pc, src, lastLoad>>
    /\ UNCHANGED evalVars

\* the "data" event of the next row
LoadData(l) ==
    /\ pc[l] = "streaming"
    /\ idx[l] < Len(src[l])
    /\ localRules' = [localRules EXCEPT ![l] = OnData(@, src[l][idx[l] + 1])]
    /\ idx' = [idx EXCEPT ![l] = @ + 1]
    /\ UNCHANGED <<rulesByState, listening, pc, src, lastLoad>>
    /\ UNCHANGED evalVars

\* the "end" event: the swap, then the promise resolves
LoadEnd(l) ==
    /\ pc[l] = "streaming"
    /\ idx[l] = Len(src[l])
    /\ rulesByState' = localRules[l]
    /\ Resolved(l, "end", src[l], localRules[l])
    /\ Finished(l)
    /\ UNCHANGED evalVars

\* the "error" event: the promise resolves and rulesByState is left as it is
LoadError(l) ==
    /\ pc[l] = "streaming"
    /\ Resolved(l, "error", <<>>, rulesByState)
    /\ Finished(l)
    /\ UNCHANGED rulesByState
    /\ UNCHANGED evalVars

\* a variant of HandleEvaluate that stores an empty list for a state the
\* Store has no entry for (rulesByState[upperState] = rules)
HandleEvaluateCaching(body) ==
    /\ evalReq' = body
    /\ evalResp' = EvaluateResponse(rulesByState, body)
    /\ evalStore' = rulesByState
    /\ evalLog' = EvaluateLog(rulesByState, body)
    /\ evalMidLoad' = (\E l \in Loaders : pc[l] = "streaming" /\ idx[l] > 0)
    /\ rulesByState' =
           IF ~Falsy(body.state) /\ UpperState(body.state) \notin DOMAIN rulesByState
           THEN Put(rulesByState, UpperState(body.state), <<>>)
           ELSE rulesByState
    /\ UNCHANGED <<listening, pc, src, idx, localRules, lastLoad>>

\* the /evaluate handler on a request body (it runs to completion)
HandleEvaluate(body) ==
    /\ evalReq' = body
    /\ evalResp' = EvaluateResponse(rulesByState, body)
    /\ evalStore' = rulesByState
    /\ evalLog' = EvaluateLog(rulesByState, body)
    /\ evalMidLoad' = (\E l \in Loaders : pc[l] = "streaming" /\ idx[l] > 0)
    /\ UNCHANGED loadVars

\* POST /evaluate
Evaluate ==
    /\ listening
    /\ \E body \in Requests : HandleEvaluate(body)

Next ==
    \/ \E l \in Loaders : LoadMissing(l)
    \/ \E l \in Loaders : \E rows \in Sources : LoadOpen(l, rows)
    \/ \E l \in Loaders : LoadData(l)
    \/ \E l \in Loaders : LoadEnd(l)
    \/ \E l \in Loaders : LoadError(l)
    \/ Evaluate

Spec == Init /\ [][Next]_vars

\* ------------------------------------------------------------------------
\* Evaluation of one request against one loaded guideline
\* ------------------------------------------------------------------------

Operators == {"=", "!=", "<", "<=", ">", ">=", "~"}

EvalClauses ==
    {Clause("amount", op, v) :
        op \in Operators, v \in {Whole(50000), Str(s50000), Str(s6000)}}
    \cup {Clause("businessForm", op, Str(sLLC)) : op \in Operators}
    \cup {Clause("residualType", op, Str(sFMV)) : op \in Operators}
    \cup {Clause("yield", op, Percent(8)) : op \in Operators}
    \cup {Clause("points", op, Percent(2)) : op \in Operators}

EvalConditionLists ==
    {<<>>,
     <<Clause("businessForm", "=", Str(sLLC))>>,
     <<Clause("points", "=", Percent(1))>>,
     <<Clause("residualType", "!=", Str(sFMV))>>,
     <<Clause("businessForm", "=", Str(sLLC)),
       Clause("amount", ">=", Whole(50000))>>}

EvalRequirementLists ==
    {<<>>,
     <<Clause("yield", "<=", Percent(8)), Clause("amount", ">=", Whole(50000))>>,
     <<Clause("amount", ">=", Whole(50000)), Clause("yield", "<=", Percent(8))>>}
    \cup {<<c>> : c \in EvalClauses}

EvalJsons ==
    {Json(c, r) : c \in EvalConditionLists, r \in EvalRequirementLists}
    \cup {JsonRequirementsOnly(<<c>>) : c \in EvalClauses}
    \cup {EmptyJson}

\* a file of one row, the guideline G1 of the state CA
EvalSources == {<<Row(Str(sCA), "G1", JsonCell(j))>> : j \in EvalJsons}

\* the state strings a request may carry
RequestStates == {<<>>, sCA, sCaLower, sCaMixed, sNY}

EvalRequests ==
    {Body(st, am, bf, rt, yi, po) :
        st \in {Undef} \cup {Str(x) : x \in RequestStates},
        am \in {Undef, Whole(10000), Whole(50000), Str(s50000)},
        bf \in {Undef, Str(sLlcPadded), Str(sCorp)},
        rt \in {Undef, Str(sFMV)},
        yi \in {Undef, Percent(9)},
        po \in {Undef, Percent(1)}}

\* the server listens after a startup load of a one-row file, and a request
\* has arrived
InitEval ==
    /\ lastLoad \in {[outcome |-> "end", rows |-> rows, statesLoaded |-> -1] :
                        rows \in EvalSources}
    /\ rulesByState = LoadRows(EmptyObject, lastLoad.rows)
    /\ listening = TRUE
    /\ pc = [l \in Loaders |-> "idle"]
    /\ src = [l \in Loaders |-> <<>>]
    /\ idx = [l \in Loaders |-> 0]
    /\ localRules = [l \in Loaders |-> EmptyObject]
    /\ evalReq \in EvalRequests
    /\ evalResp = NoResponse
    /\ evalStore = EmptyObject
    /\ evalLog = <<>>
    /\ evalMidLoad = FALSE

\* POST /evaluate with the request that has arrived
EvaluatePending ==
    /\ listening
    /\ evalResp = NoResponse
    /\ HandleEvaluate(evalReq)

NextEval == EvaluatePending

SpecEval == InitEval /\ [][NextEval]_vars

\* ------------------------------------------------------------------------
\* Properties
\* ------------------------------------------------------------------------

\* an /evaluate request has been answered with a report
Reported == evalResp.status = 200

\* the guidelines the answered request was evaluated against
EvalRules == RulesFor(evalStore, evalResp.state)

\* the deal values of the answered request
EvalDeal == DealOf(evalReq)

\* every condition clause of the rule evaluates true
AllConditionsHold(rule, deal) ==
    \A j \in DOMAIN Conditions(rule) : evaluateCondition(Conditions(rule)[j], deal)

\* at least one requirement clause of the rule evaluates false
SomeRequirementFails(rule, deal) ==
    \E j \in DOMAIN Requirements(rule) :
        ~evaluateCondition(Requirements(rule)[j], deal)

\* the clause reads a field the deal does not have a value for
FieldMissing(clause, deal) == DealValue(deal, clause.field).t = "undef"

\* C1: for every guideline checked for a request, applies is true exactly
\* when every condition clause evaluates true, and violated is true exactly
\* when applies is true and at least one requirement clause evaluates false;
\* a guideline whose conditions are not all met, or whose requirement list
\* is empty, is never violated.
C1_MatcherResult ==
    Reported =>
        /\ Len(evalLog) = Len(EvalRules)
        /\ \A i \in DOMAIN EvalRules :
            LET rule == EvalRules[i] IN
            /\ evalLog[i].applies <=> AllConditionsHold(rule, EvalDeal)
            /\ evalLog[i].violated <=>
                   (evalLog[i].applies /\ SomeRequirementFails(rule, EvalDeal))
            /\ ~AllConditionsHold(rule, EvalDeal) => ~evalLog[i].violated
            /\ Requirements(rule) = <<>> => ~evalLog[i].violated

\* a guideline with two requirements, one met and one failed, was violated
C1_Witness ==
    /\ Reported
    /\ Len(evalLog) = 1
    /\ Conditions(EvalRules[1]) # <<>>
    /\ evalLog[1].applies
    /\ evalLog[1].violated
    /\ Len(Requirements(EvalRules[1])) = 2
    /\ \E j \in 1..2 : evaluateCondition(Requirements(EvalRules[1])[j], EvalDeal)

\* the positions of the guidelines that apply and are violated, in order
RECURSIVE ViolatedPositions(_, _, _)
ViolatedPositions(rules, i, deal) ==
    IF i > Len(rules) THEN <<>>
    ELSE IF AllConditionsHold(rules[i], deal) /\ SomeRequirementFails(rules[i], deal)
         THEN <<i>> \o ViolatedPositions(rules, i + 1, deal)
         ELSE ViolatedPositions(rules, i + 1, deal)

\* C2: the violations list of a report holds exactly one entry for each
\* guideline stored under the state that applies and is violated, in the
\* order the guidelines are stored, and violationCount is its length.
C2_ViolationsList ==
    Reported =>
        LET pos == ViolatedPositions(EvalRules, 1, EvalDeal) IN
        /\ Len(evalResp.violations) = Len(pos)
        /\ \A k \in DOMAIN pos :
            /\ evalResp.violations[k].ruleId = EvalRules[pos[k]].id
            /\ evalResp.violations[k].rule = EvalRules[pos[k]].text
        /\ evalResp.violationCount = Len(evalResp.violations)

\* two of three stored guidelines were reported, in load order
C2_Witness ==
    /\ Reported
    /\ Len(EvalRules) = 3
    /\ evalResp.violationCount = 2
    /\ evalResp.violations[1].ruleId = "G1"
    /\ evalResp.violations[2].ruleId = "G2"

CompleteStores ==
    {EmptyObject} \cup {LoadRows(EmptyObject, rows) : rows \in Sources}

\* C4: the Store an evaluation reads is a complete mapping, the empty one
\* or the one built from all rows of a source, however the request is
\* interleaved with the row events of the loads.
C4_ReadsCompleteStore == Reported => evalStore \in CompleteStores

\* a request was evaluated against a loaded Store while a load had
\* delivered some of its rows
C4_Witness ==
    /\ Reported
    /\ evalMidLoad
    /\ evalStore # EmptyObject
    /\ evalResp.violationCount > 0

\* the value is a number, or a string of decimal digits
NumericLooking(v) ==
    \/ v.t = "num"
    \/ /\ v.t = "str"
       /\ trim(v.s) # <<>>
       /\ \A i \in DOMAIN trim(v.s) : IsDigit(trim(v.s)[i])

\* the number a numeric-looking value stands for, in units of 1/Scale
NumberOf(v) == IF v.t = "num" THEN v.n ELSE Scale * DigitsValue(trim(v.s), 0)

\* the comparison of two numbers by one of the six operators
NumericHolds(op, a, b) ==
    CASE op = "=" -> a = b
      [] op = "!=" -> a # b
      [] op = "<" -> a < b
      [] op = "<=" -> a <= b
      [] op = ">" -> a > b
      [] op = ">=" -> a >= b
      [] OTHER -> FALSE

\* C5: when the deal's value for a clause's field is numeric or a
\* numeric-looking string, the clause is decided by comparing the two
\* operands as numbers, whichever of them was given as a string.
C5_NumericCoercion ==
    Reported =>
        \A c \in EvalClauses :
            LET v == DealValue(EvalDeal, c.field) IN
            (NumericLooking(v) /\ NumericLooking(c.value) /\ c.operator # "~")
            => (evaluateCondition(c, EvalDeal)
                    <=> NumericHolds(c.operator, NumberOf(v), NumberOf(c.value)))

\* the only requirement of the rule is a clause on points with this operator
OnlyRequirementOnPoints(rule, op) ==
    /\ Len(Requirements(rule)) = 1
    /\ Requirements(rule)[1].field = "points"
    /\ Requirements(rule)[1].operator = op

\* C6: a clause on points is evaluated against the points value of the
\* request: an applying guideline whose only requirement is points <= v is
\* not violated by a request whose points value is at most v, and a
\* condition points = v is met by a request whose points value is v.
C6_PointsFromRequest ==
    Reported =>
        \A i \in DOMAIN EvalRules :
            LET rule == EvalRules[i] IN
            /\ (/\ evalLog[i].applies
                /\ OnlyRequirementOnPoints(rule, "<=")
                /\ evalReq.points.t = "num"
                /\ evalReq.points.n <= Requirements(rule)[1].value.n)
               => ~evalLog[i].violated
            /\ (/\ Len(Conditions(rule)) = 1
                /\ Conditions(rule)[1].field = "points"
                /\ Conditions(rule)[1].operator = "="
                /\ evalReq.points = Conditions(rule)[1].value)
               => evalLog[i].applies

\* the Rule_JSON__c cell of the row failed to parse
Malformed(row) == row.Rule_JSON__c.kind = "garbage"

\* C7: after a load has ended, no row whose rule data failed to parse is in
\* the Store under its state, a state whose rows are all malformed is not
\* a key of the Store, and every well-formed row with a state is in the Store.
C7_MalformedRowsDropped ==
    lastLoad.outcome = "end" =>
        LET rows == lastLoad.rows IN
        \A i \in DOMAIN rows :
            LET state == RowState(rows[i]) IN
            /\ (Malformed(rows[i]) /\ state \in DOMAIN rulesByState)
               => \A k \in DOMAIN rulesByState[state] :
                     rulesByState[state][k].id # rows[i].Guideline__c
            /\ (\A j \in DOMAIN rows :
                    RowState(rows[j]) = state => Malformed(rows[j]))
               => state \notin DOMAIN rulesByState
            /\ (~Malformed(rows[i]) /\ state # <<>>)
               => /\ state \in DOMAIN rulesByState
                  /\ \E k \in DOMAIN rulesByState[state] :
                        rulesByState[state][k] = RuleOf(rows[i])

\* C8: a /reload that could not read the source, because the file is
\* missing or because reading it failed, answers with a state count of zero.
C8_UnreadableSourceReportsZero ==
    (lastLoad.outcome \in {"missing", "error"} /\ lastLoad.statesLoaded # -1)
    => lastLoad.statesLoaded = 0

\* the two strings differ at most in letter case
SameIgnoringCase(x, y) ==
    /\ Len(x) = Len(y)
    /\ \A i \in DOMAIN x : LowerChar(x[i]) = LowerChar(y[i])

\* C9: the report's state is the request's state in upper case, the
\* guidelines checked are those stored under it, every request with the
\* same deal attributes whose state differs only in letter case gets the
\* same report from the same Store, and a state without an entry in the
\* Store gets violationCount 0 and an empty violations list.
C9_StateCaseInsensitive ==
    Reported =>
        /\ SameIgnoringCase(evalResp.state, evalReq.state.s)
        /\ \A i \in DOMAIN evalResp.state : evalResp.state[i] \notin Range(Lowers)
        /\ Len(evalLog) = Len(RulesFor(evalStore, evalResp.state))
        /\ \A x \in RequestStates :
            SameIgnoringCase(x, evalReq.state.s)
            => EvaluateResponse(evalStore, [evalReq EXCEPT !.state = Str(x)])
                   = evalResp
        /\ evalResp.state \notin DOMAIN evalStore
           => (evalResp.violationCount = 0 /\ evalResp.violations = <<>>)

\* a request with a lower-case state was evaluated against the guideline
\* stored under the upper-case code, which it violates
C9_Witness ==
    /\ Reported
    /\ evalReq.state = Str(sCaLower)
    /\ sCA \in DOMAIN evalStore
    /\ evalResp.violationCount = 1

\* the request has been answered
Answered == evalResp # NoResponse

\* C10: a request whose state is absent or empty is answered with a client
\* error, whatever its other attributes and the Store: no guideline is
\* checked and the answer holds no state, violationCount or violations.
C10_MissingState ==
    (Answered /\ evalReq.state \in {Undef, Str(<<>>)}) =>
        /\ evalResp.status = 400
        /\ evalResp.keys = {"error"}
        /\ evalLog = <<>>

\* a request with an empty state and an amount was refused although the
\* Store holds guidelines
C10_Witness ==
    /\ Answered
    /\ evalReq.state = Str(<<>>)
    /\ evalReq.amount # Undef
    /\ rulesByState # EmptyObject
    /\ evalResp.status = 400

\* C11: a step of POST /evaluate, answered with a report or with the
\* missing-state error, leaves the Store as it was; only the end of a load
\* or a load that finds no file changes the Store; and a request that
\* repeats the deal of the request before it, the Store being the one that
\* request read, gets the same response.
C11_EvaluateKeepsStore ==
    [][/\ Evaluate =>
            /\ rulesByState' = rulesByState
            /\ (Answered /\ evalReq' = evalReq /\ rulesByState = evalStore)
               => evalResp' = evalResp
       /\ rulesByState' # rulesByState =>
            \E l \in Loaders : LoadEnd(l) \/ LoadMissing(l)]_vars

\* a request was answered with violations from a loaded Store, and the
\* Store is still the one it read
C11_Witness ==
    /\ Reported
    /\ evalStore # EmptyObject
    /\ evalResp.violationCount > 0
    /\ rulesByState = evalStore
    /\ lastLoad.outcome = "end"

\* the first n texts, each after the first preceded by " AND "
RECURSIVE AndJoined(_, _)
AndJoined(texts, n) ==
    IF n = 0 THEN <<>>
    ELSE IF n = 1 THEN texts[1]
    ELSE AndJoined(texts, n - 1) \o <<" ", "A", "N", "D", " ">> \o texts[n]

\* the condition part: one description per condition clause, in clause order
ConditionPart(rule) ==
    AndJoined([i \in DOMAIN Conditions(rule) |-> describeCond(Conditions(rule)[i])],
              Len(Conditions(rule)))

\* the requirement part: one description per requirement clause, in clause order
RequirementPart(rule) ==
    AndJoined([i \in DOMAIN Requirements(rule) |-> describeReq(Requirements(rule)[i])],
              Len(Requirements(rule)))

\* the explanation the parts make up, each part closed by a full stop
ExplanationOfParts(rule) ==
    IF Conditions(rule) # <<>> /\ Requirements(rule) # <<>>
    THEN ConditionPart(rule) \o <<".", " ">> \o RequirementPart(rule) \o <<".">>
    ELSE IF Conditions(rule) # <<>> THEN ConditionPart(rule) \o <<".">>
    ELSE IF Requirements(rule) # <<>> THEN RequirementPart(rule) \o <<".">>
    ELSE tFallback

\* the answered request with other deal attributes
OtherDeals ==
    {[evalReq EXCEPT !.amount = am, !.businessForm = bf, !.yield = yi] :
        am \in {Undef, Whole(10000), Whole(50000)},
        bf \in {Undef, Str(sLlcPadded), Str(sCorp)},
        yi \in {Undef, Percent(9)}}

\* C12: the explanation of a guideline is its condition descriptions joined
\* by " AND " followed by its requirement descriptions joined by " AND "
\* when both lists are non-empty, the one part alone when only one list is
\* non-empty, and the fallback text when both are empty; the notes of a
\* reported guideline are that explanation after the state prefix, and they
\* are the same for every deal that violates the guideline.
C12_ExplanationFromParts ==
    Reported =>
        /\ \A i \in DOMAIN EvalRules :
            generateExplanation(EvalRules[i]) = ExplanationOfParts(EvalRules[i])
        /\ LET pos == ViolatedPositions(EvalRules, 1, EvalDeal) IN
           \A k \in DOMAIN evalResp.violations :
            /\ k \in DOMAIN pos
            /\ evalResp.violations[k].notes =
                   tInTheStateOf \o evalResp.state \o <<",", " ">>
                       \o ExplanationOfParts(EvalRules[pos[k]])
        /\ \A other \in OtherDeals :
            LET resp == EvaluateResponse(evalStore, other) IN
            (Len(EvalRules) = 1 /\ resp.violationCount = 1
                /\ evalResp.violationCount = 1)
            => resp.violations[1].notes = evalResp.violations[1].notes

\* a guideline with two conditions and two requirements was reported with
\* notes made of both parts
C12_Witness ==
    /\ Reported
    /\ Len(EvalRules) = 1
    /\ Len(Conditions(EvalRules[1])) = 2
    /\ Len(Requirements(EvalRules[1])) = 2
    /\ evalResp.violationCount = 1
    /\ Len(evalResp.violations[1].notes)
           > Len(ConditionPart(EvalRules[1])) + Len(RequirementPart(EvalRules[1]))

====
